---- MODULE Spec2Model ----
(***************************************************************************)
(* A model of main.py: the user registry (known_users), the pending map    *)
(* (pending_users), the asyncio lock that guards it (pending_lock), and    *)
(* the coroutines that touch them: start_command, trigger_now_command,     *)
(* ask_all_users, repeated_ask_job and handle_text.                        *)
(*                                                                         *)
(* asyncio is cooperative: a coroutine runs without interruption from one  *)
(* suspension point to the next.  Each action below is one such block: it  *)
(* starts where an await resumes (with the outcome of the awaited send)    *)
(* and runs to the next await that really suspends.  Acquiring a free      *)
(* asyncio.Lock does not suspend, so it is part of the block it occurs in. *)
(***************************************************************************)
EXTENDS Integers, Sequences, FiniteSets, TLC

(* ----------------------------- bounds ---------------------------------- *)

\* Users are 1..NumUsers.
NumUsers == 2

\* Update-handler calls that may be in flight at once (the job is one more task).
NumHandlers == 1

(* ------------------------ program constants ---------------------------- *)

\* handle_text: 10 <= n <= 100
MinN == 10
MaxN == 100

\* generate_matrix_and_row_averages: random.randint(0, 100)
RandLo == 0
RandHi == 100

\* format_averages_column: {val:6.2f}
FieldWidth == 6

(* ------------------------------ values --------------------------------- *)

Users == 1..NumUsers

\* update.effective_user is None
NoUser == 0

\* The scheduled job runs as its own task; handler calls are tasks 1..NumHandlers.
JobTask == 0
Handlers == 1..NumHandlers

\* The handler calls in flight at once where the Application dispatches updates
\* concurrently (ApplicationBuilder.concurrent_updates; main() leaves it off).
Overlapping == 1..(NumHandlers + 1)

Tasks == {JobTask} \cup Overlapping

\* pending_lock is not held
NoTask == -1

\* States of random's generator a reply may start from.
Seeds == {0, 1}

\* Message texts a user may send, as sequences of characters: the ones sent
\* while other tasks run ...
Texts ==
    { <<"a", "b", "c">>,
      <<"9">>,
      <<"1", "0">> }

\* ... and the ones sent to a program that does nothing else.
IsoTexts ==
    Texts \cup
    { <<>>,
      <<"1", "0", ".", "5">>,
      <<"-", "5">>,
      <<"0">>,
      <<"1", "0", "1">>,
      <<"+", "1", "1">>,
      <<"4", "_", "2">>,
      <<" ", "1", "0", "0", "\n">> }

(* ----------------------- int(text.strip()) ----------------------------- *)

Digits == {"0", "1", "2", "3", "4", "5", "6", "7", "8", "9"}

Whitespace == {" ", "\t", "\n", "\r"}

DigitValue(c) ==
    CASE c = "0" -> 0 [] c = "1" -> 1 [] c = "2" -> 2 [] c = "3" -> 3
      [] c = "4" -> 4 [] c = "5" -> 5 [] c = "6" -> 6 [] c = "7" -> 7
      [] c = "8" -> 8 [] c = "9" -> 9

RECURSIVE StripLeft(_)
StripLeft(s) ==
    IF s # <<>> /\ Head(s) \in Whitespace THEN StripLeft(Tail(s)) ELSE s

RECURSIVE StripRight(_)
StripRight(s) ==
    IF s # <<>> /\ s[Len(s)] \in Whitespace
    THEN StripRight(SubSeq(s, 1, Len(s) - 1))
    ELSE s

\* str.strip()
Strip(s) == StripRight(StripLeft(s))

\* Digits with single underscores between them, as int() accepts.
RECURSIVE IsDigitRun(_)
IsDigitRun(s) ==
    /\ s # <<>>
    /\ Head(s) \in Digits
    /\ \/ Len(s) = 1
       \/ /\ s[2] \in Digits
          /\ IsDigitRun(Tail(s))
       \/ /\ s[2] = "_"
          /\ Len(s) >= 3
          /\ IsDigitRun(SubSeq(s, 3, Len(s)))

RECURSIVE DigitRunValue(_, _)
DigitRunValue(s, acc) ==
    IF s = <<>> THEN acc
    ELSE IF Head(s) = "_" THEN DigitRunValue(Tail(s), acc)
    ELSE DigitRunValue(Tail(s), 10 * acc + DigitValue(Head(s)))

\* int(text): ok is FALSE where int() raises ValueError.
ParseInt(text) ==
    LET s == Strip(text)
        signed == s # <<>> /\ Head(s) \in {"+", "-"}
        body == IF signed THEN Tail(s) ELSE s
        mag == DigitRunValue(body, 0)
    IN  IF IsDigitRun(body)
        THEN [ok |-> TRUE, val |-> IF signed /\ Head(s) = "-" THEN 0 - mag ELSE mag]
        ELSE [ok |-> FALSE, val |-> 0]

\* As InRange, with both bounds excluded.
InRange_Exclusive(n) == MinN < n /\ n < MaxN

\* As InRange, one too wide at each end.
InRange_OffByOne(n) == MinN - 1 <= n /\ n <= MaxN + 1

\* 10 <= n <= 100
InRange(n) == MinN <= n /\ n <= MaxN

(* ------------- generate_matrix_and_row_averages(n) --------------------- *)

\* The k-th value random.randint(0, 100) returns from generator state seed.
RandInt(seed, k) ==
    RandLo + (((seed + k) * (seed + k) * 13 + 7 * k) % (RandHi - RandLo + 1))

\* matrix = [[random.randint(0, 100) for _ in range(n)] for _ in range(n)]
Matrix(n, seed) ==
    [i \in 1..n |-> [j \in 1..n |-> RandInt(seed, (i - 1) * n + j)]]

\* row[lo] + ... + row[hi], added up by halves.
RECURSIVE SumRange(_, _, _)
SumRange(row, lo, hi) ==
    IF lo > hi THEN 0
    ELSE IF lo = hi THEN row[lo]
    ELSE LET mid == (lo + hi) \div 2
         IN  SumRange(row, lo, mid) + SumRange(row, mid + 1, hi)

\* sum(row)
Sum(row) == SumRange(row, 1, Len(row))

\* As Averages, over the columns of the matrix instead of its rows.
Averages_OfColumns(matrix) ==
    [j \in 1..Len(matrix) |->
        [num |-> Sum([i \in 1..Len(matrix) |-> matrix[i][j]]), den |-> Len(matrix)]]

\* avg = sum(row) / len(row), kept as the exact quotient num / den.
Averages(matrix) ==
    [i \in 1..Len(matrix) |-> [num |-> Sum(matrix[i]), den |-> Len(matrix[i])]]

\* return matrix, averages
GenerateMatrixAndRowAverages(n, seed) ==
    LET matrix == Matrix(n, seed)
    IN  [matrix |-> matrix, averages |-> Averages(matrix)]

(* -------------------- format_averages_column --------------------------- *)

\* val rounded to hundredths as {val:.2f} rounds the double num / den: to the
\* nearest hundredth, and at an exact tie to the even one (the ties a double
\* cannot represent do not occur for a den that divides 100).
Hundredths(val) ==
    LET q == (val.num * 100) \div val.den
        r == (val.num * 100) % val.den
    IN  IF 2 * r < val.den THEN q
        ELSE IF 2 * r > val.den THEN q + 1
        ELSE IF q % 2 = 0 THEN q ELSE q + 1

TwoDigits(k) == IF k < 10 THEN "0" \o ToString(k) ELSE ToString(k)

\* {val:.2f} for val >= 0
Fixed2(val) ==
    LET h == Hundredths(val)
    IN  ToString(h \div 100) \o "." \o TwoDigits(h % 100)

RECURSIVE PadLeft(_, _)
PadLeft(s, width) == IF Len(s) >= width THEN s ELSE PadLeft(" " \o s, width)

\* f"[ {val:6.2f} ]"
FormatLine(val) == "[ " \o PadLeft(Fixed2(val), FieldWidth) \o " ]"

\* The lines of format_averages_column(averages), which it joins with "\n"
\* inside <pre>...</pre>.
FormatAveragesColumn(averages) ==
    [i \in 1..Len(averages) |-> FormatLine(averages[i])]

(* ------------------------------ state ---------------------------------- *)

VARIABLES
    known_users,    \* known_users: Set[int]
    pending_users,  \* pending_users: Dict[int, bool], a function on its keys
    lock_holder,    \* the task inside "async with pending_lock", or NoTask
    lock_waiters,   \* the tasks suspended in pending_lock.acquire(), in order
    task,           \* each task's coroutine: where it is suspended, and its locals
    iso             \* the program run apart, in SpecIsolated and SpecMatrix (NoIso under Spec)

vars == <<known_users, pending_users, lock_holder, lock_waiters, task, iso>>

\* The program's state as one value, so that a step of the code is a function
\* from one such value to the next.
World ==
    [known_users |-> known_users, pending_users |-> pending_users,
     lock_holder |-> lock_holder, lock_waiters |-> lock_waiters, task |-> task]

Becomes(w) ==
    /\ known_users' = w.known_users
    /\ pending_users' = w.pending_users
    /\ lock_holder' = w.lock_holder
    /\ lock_waiters' = w.lock_waiters
    /\ task' = w.task

NoIso == [on |-> FALSE]

\* A coroutine that has not been called.
IdleTask ==
    [pc |-> "idle", handler |-> "none", user_id |-> NoUser, text |-> <<>>,
     is_pending |-> FALSE, n |-> 0, snapshot |-> <<>>, i |-> 0, out |-> <<>>]

NewTask(handler, user, text) ==
    [IdleTask EXCEPT !.pc = "running", !.handler = handler,
                     !.user_id = user, !.text = text]

\* A coroutine that has returned ("done") or raised ("raised").
Finished(w, t) == w.task[t].pc \in {"done", "raised"}

\* A finished coroutine is gone; its task can take the next call.
Reap(w) ==
    [w EXCEPT !.task = [t \in Tasks |-> IF Finished(w, t) THEN IdleTask ELSE w.task[t]]]

\* One outgoing message, recorded in out when the task calls the send and
\* suspends in it.  lines are the lines inside <pre>...</pre>, if any.
Message(kind, to, lines) == [kind |-> kind, to |-> to, lines |-> lines]

Sending(w, t, kind, lines) ==
    [w EXCEPT !.task[t].out = Append(@, Message(kind, w.task[t].user_id, lines))]

At(w, t, pc) == [w EXCEPT !.task[t].pc = pc]

(* ---------------------------- pending_lock ----------------------------- *)

LockFree(w) == w.lock_holder = NoTask

\* pending_lock.acquire(): taken at once when free, else the caller queues.
Acquire(w, t) ==
    IF LockFree(w)
    THEN [w EXCEPT !.lock_holder = t]
    ELSE [w EXCEPT !.lock_waiters = Append(@, t)]

\* pending_lock.release(): the lock passes to the first waiter, if any.
Release(w) ==
    IF w.lock_waiters = <<>>
    THEN [w EXCEPT !.lock_holder = NoTask]
    ELSE [w EXCEPT !.lock_holder = Head(w.lock_waiters),
                   !.lock_waiters = Tail(w.lock_waiters)]

(* ---------------------------- pending_users ---------------------------- *)

\* pending_users.get(user_id, False)
PendingGet(pending, u) == IF u \in DOMAIN pending THEN pending[u] ELSE FALSE

\* pending_users[user_id] = True
PendingSet(pending, u) ==
    [v \in DOMAIN pending \cup {u} |-> IF v = u THEN TRUE ELSE pending[v]]

\* pending_users.pop(user_id, None)
PendingPop(pending, u) == [v \in DOMAIN pending \ {u} |-> pending[v]]

(* ---------------------------- start_command ---------------------------- *)

\* As StartCommand, with the new user marked pending at once.
StartCommand_MarksPending(w, t, user) ==
    IF user = NoUser
    THEN At([w EXCEPT !.task[t] = NewTask("start_command", user, <<>>)], t, "done")
    ELSE At(Sending([w EXCEPT !.known_users = @ \cup {user},
                              !.pending_users = PendingSet(@, user),
                              !.task[t] = NewTask("start_command", user, <<>>)],
                    t, "welcome", <<>>),
            t, "welcome_reply")

\* start_command up to "await update.message.reply_text(text)".
StartCommand(w, t, user) ==
    IF user = NoUser
    THEN At([w EXCEPT !.task[t] = NewTask("start_command", user, <<>>)], t, "done")
    ELSE At(Sending([w EXCEPT !.known_users = @ \cup {user},
                              !.task[t] = NewTask("start_command", user, <<>>)],
                    t, "welcome", <<>>),
            t, "welcome_reply")

\* The welcome reply returns, or raises out of the handler.
StartReplied(w, t, ok) == At(w, t, IF ok THEN "done" ELSE "raised")

(* ----------------------------- ask_all_users --------------------------- *)

\* list(known_users), for the order in which the set iterates.
Snapshot(known, order) ==
    LET Known(u) == u \in known IN SelectSeq(order, Known)

\* The send succeeded: pending_users[user_id] = True.
AskSendOk(w, u) == [w EXCEPT !.pending_users = PendingSet(@, u)]

\* As AskSendFailed, without the pop of the pending flag.
AskSendFailed_KeepsFlag(w, u) == [w EXCEPT !.known_users = @ \ {u}]

\* The send raised: known_users.discard(user_id); pending_users.pop(user_id, None).
AskSendFailed(w, u) ==
    [w EXCEPT !.known_users = @ \ {u}, !.pending_users = PendingPop(@, u)]

\* Leaving "async with pending_lock" at the end of ask_all_users.
AskReturn(w, t) == At(Release(w), t, "done")

\* The loop reaches snapshot[i]: send_message(chat_id=user_id, ...).
AskPrompt(w, t, i) ==
    At([w EXCEPT !.task[t].i = i,
                 !.task[t].out = Append(@, Message("prompt", w.task[t].snapshot[i], <<>>))],
       t, "prompt_send")

\* Inside the lock: the snapshot, and the first send_message.
AskLocked(w, t, order) ==
    LET snapshot == Snapshot(w.known_users, order)
    IN  IF snapshot = <<>>
        THEN AskReturn(w, t)
        ELSE AskPrompt([w EXCEPT !.task[t].snapshot = snapshot], t, 1)

\* As AskAllUsers, with the loop outside "async with pending_lock".
AskAllUsers_Unlocked(w, t, order) ==
    IF w.known_users = {}
    THEN At(w, t, "done")
    ELSE AskLocked(w, t, order)

\* As AskAllUsers, with a run that finds another one inside the lock dropped.
AskAllUsers_SkipWhenLocked(w, t, order) ==
    IF w.known_users = {}
    THEN At(w, t, "done")
    ELSE IF LockFree(w)
    THEN AskLocked(Acquire(w, t), t, order)
    ELSE At(w, t, "done")

\* ask_all_users from its call to its first suspension.
AskAllUsers(w, t, order) ==
    IF w.known_users = {}
    THEN At(w, t, "done")
    ELSE IF LockFree(w)
    THEN AskLocked(Acquire(w, t), t, order)
    ELSE At(Acquire(w, t), t, "wait_lock")

\* As AskSent, with the try around the loop: the first failure ends the loop.
AskSent_AbortOnFailure(w, t, ok) ==
    LET u == w.task[t].snapshot[w.task[t].i]
        w1 == IF ok THEN AskSendOk(w, u) ELSE AskSendFailed(w, u)
    IN  IF ~ok \/ w.task[t].i = Len(w.task[t].snapshot)
        THEN AskReturn(w1, t)
        ELSE AskPrompt(w1, t, w.task[t].i + 1)

\* As AskSent, with a send that raises ending the run inside the lock, which
\* stays held.
AskSent_RaiseHoldingLock(w, t, ok) ==
    LET u == w.task[t].snapshot[w.task[t].i]
        w1 == IF ok THEN AskSendOk(w, u) ELSE AskSendFailed(w, u)
    IN  IF ~ok
        THEN At(w1, t, "raised")
        ELSE IF w.task[t].i = Len(w.task[t].snapshot)
        THEN AskReturn(w1, t)
        ELSE AskPrompt(w1, t, w.task[t].i + 1)

\* As AskSent, with a send that raised tried again.
AskSent_RetryOnFailure(w, t, ok) ==
    LET u == w.task[t].snapshot[w.task[t].i]
        w1 == IF ok THEN AskSendOk(w, u) ELSE w
    IN  IF ~ok
        THEN AskPrompt(w1, t, w.task[t].i)
        ELSE IF w.task[t].i = Len(w.task[t].snapshot)
        THEN AskReturn(w1, t)
        ELSE AskPrompt(w1, t, w.task[t].i + 1)

\* send_message to snapshot[i] returns (ok) or raises; then the next user.
AskSent(w, t, ok) ==
    LET u == w.task[t].snapshot[w.task[t].i]
        w1 == IF ok THEN AskSendOk(w, u) ELSE AskSendFailed(w, u)
    IN  IF w.task[t].i = Len(w.task[t].snapshot)
        THEN AskReturn(w1, t)
        ELSE AskPrompt(w1, t, w.task[t].i + 1)

\* trigger_now_command: register the caller, then ask_all_users.
TriggerNowCommand(w, t, user, order) ==
    AskAllUsers(
        [w EXCEPT !.known_users = IF user = NoUser THEN @ ELSE @ \cup {user},
                  !.task[t] = NewTask("trigger_now_command", user, <<>>)],
        t, order)

\* As RepeatedAskJob, with ask_all_users(context) called but never awaited.
RepeatedAskJob_NotAwaited(w, t, order) ==
    At([w EXCEPT !.task[t] = NewTask("repeated_ask_job", NoUser, <<>>)], t, "done")

\* repeated_ask_job: ask_all_users.
RepeatedAskJob(w, t, order) ==
    AskAllUsers([w EXCEPT !.task[t] = NewTask("repeated_ask_job", NoUser, <<>>)],
                t, order)

(* ------------------------------ handle_text ---------------------------- *)

\* As HandleTextPop, without the pop.
HandleTextPop_KeepsFlag(w, t) ==
    At(Sending(Release(w), t, "generating", <<>>), t, "generating_reply")

\* "Valid N; remove from pending", inside the lock, up to the "Generating" reply.
HandleTextPop(w, t) ==
    At(Sending(Release([w EXCEPT !.pending_users = PendingPop(@, w.task[t].user_id)]),
               t, "generating", <<>>),
       t, "generating_reply")

\* As HandleTextRoute, with the flag cleared on a reply that is not a valid N.
HandleTextRoute_ClearOnInvalid(w, t) ==
    LET parsed == ParseInt(w.task[t].text)
        cleared == [w EXCEPT !.pending_users = PendingPop(@, w.task[t].user_id)]
    IN  IF ~w.task[t].is_pending
        THEN At(Sending(w, t, "hint", <<>>), t, "hint_reply")
        ELSE IF ~parsed.ok
        THEN At(Sending(cleared, t, "format_error", <<>>), t, "format_reply")
        ELSE IF ~InRange(parsed.val)
        THEN At(Sending([cleared EXCEPT !.task[t].n = parsed.val], t, "range_error", <<>>),
                t, "range_reply")
        ELSE LET w1 == [w EXCEPT !.task[t].n = parsed.val]
             IN  IF LockFree(w1)
                 THEN HandleTextPop(Acquire(w1, t), t)
                 ELSE At(Acquire(w1, t), t, "wait_pop")

\* From "if not is_pending" to the next suspension.
HandleTextRoute(w, t) ==
    LET parsed == ParseInt(w.task[t].text)
    IN  IF ~w.task[t].is_pending
        THEN At(Sending(w, t, "hint", <<>>), t, "hint_reply")
        ELSE IF ~parsed.ok
        THEN At(Sending(w, t, "format_error", <<>>), t, "format_reply")
        ELSE IF ~InRange(parsed.val)
        THEN At(Sending([w EXCEPT !.task[t].n = parsed.val], t, "range_error", <<>>),
                t, "range_reply")
        ELSE LET w1 == [w EXCEPT !.task[t].n = parsed.val]
             IN  IF LockFree(w1)
                 THEN HandleTextPop(Acquire(w1, t), t)
                 ELSE At(Acquire(w1, t), t, "wait_pop")

\* Inside the lock: is_pending = pending_users.get(user_id, False).
HandleTextRead(w, t) ==
    HandleTextRoute(
        Release([w EXCEPT !.task[t].is_pending =
                     PendingGet(w.pending_users, w.task[t].user_id)]),
        t)

\* As HandleText, without known_users.add(user_id).
HandleText_NoRegister(w, t, user, text) ==
    IF user = NoUser
    THEN At([w EXCEPT !.task[t] = NewTask("handle_text", user, <<>>)], t, "done")
    ELSE LET w1 == [w EXCEPT !.task[t] = NewTask("handle_text", user, Strip(text))]
         IN  IF LockFree(w1)
             THEN HandleTextRead(Acquire(w1, t), t)
             ELSE At(Acquire(w1, t), t, "wait_read")

\* handle_text from its call to its first suspension.
HandleText(w, t, user, text) ==
    IF user = NoUser
    THEN At([w EXCEPT !.task[t] = NewTask("handle_text", user, <<>>)], t, "done")
    ELSE LET w1 == [w EXCEPT !.known_users = @ \cup {user},
                             !.task[t] = NewTask("handle_text", user, Strip(text))]
         IN  IF LockFree(w1)
             THEN HandleTextRead(Acquire(w1, t), t)
             ELSE At(Acquire(w1, t), t, "wait_read")

\* The hint, format-error or range-error reply returns or raises; handle_text ends.
HandleTextReplied(w, t, ok) == At(w, t, IF ok THEN "done" ELSE "raised")

\* The "Generating" reply returns: the matrix, its averages, the formatted column
\* and the call of reply_html.  If it raises, handle_text ends with it.
HandleTextGenerated(w, t, ok, seed) ==
    LET averages == Averages(Matrix(w.task[t].n, seed))
    IN  IF ok
        THEN At(Sending(w, t, "result", FormatAveragesColumn(averages)), t, "result_reply")
        ELSE At(w, t, "raised")

\* As HandleTextResult, with the user dropped from the registry when the send
\* raises, as ask_all_users does.
HandleTextResult_Unregister(w, t, ok) ==
    IF ok THEN At(w, t, "done")
    ELSE At(Sending([w EXCEPT !.known_users = @ \ {w.task[t].user_id}], t, "apology", <<>>),
            t, "apology_reply")

\* As HandleTextResult, with the result sent again when the send raises.
HandleTextResult_Retry(w, t, ok) ==
    IF ok THEN At(w, t, "done")
    ELSE At(Sending(w, t, "result", w.task[t].out[Len(w.task[t].out)].lines),
            t, "result_reply")

\* reply_html returns, or raises into "except Exception" and the apology is sent.
HandleTextResult(w, t, ok) ==
    IF ok THEN At(w, t, "done") ELSE At(Sending(w, t, "apology", <<>>), t, "apology_reply")

\* The apology returns or raises; handle_text ends.
HandleTextApology(w, t, ok) == At(w, t, IF ok THEN "done" ELSE "raised")

(* ------------------------------- actions ------------------------------- *)

\* The orders in which a set of users may iterate.
Orders == {o \in [1..NumUsers -> Users] : \A a, b \in 1..NumUsers : o[a] = o[b] => a = b}

Callers == Users \cup {NoUser}

Init ==
    /\ known_users = {}
    /\ pending_users = << >>
    /\ lock_holder = NoTask
    /\ lock_waiters = << >>
    /\ task = [t \in Tasks |-> IdleTask]
    /\ iso = NoIso

\* The program moves to w; coroutines that finished on the way are gone.
Step(w) == Becomes(Reap(w)) /\ UNCHANGED iso

Called(t) == task[t].pc = "idle"

Resumed(t, pc) == task[t].pc = pc

\* An update "/start" is dispatched to start_command.
StartCommandCalled(t) ==
    /\ Called(t)
    /\ \E user \in Callers : Step(StartCommand(World, t, user))

StartCommandReplied(t) ==
    /\ Resumed(t, "welcome_reply")
    /\ \E ok \in BOOLEAN : Step(StartReplied(World, t, ok))

\* An update "/trigger_now" is dispatched to trigger_now_command.
TriggerNowCalled(t) ==
    /\ Called(t)
    /\ \E user \in Callers, order \in Orders :
          Step(TriggerNowCommand(World, t, user, order))

\* The JobQueue runs repeated_ask_job.
JobFired ==
    /\ Called(JobTask)
    /\ \E order \in Orders : Step(RepeatedAskJob(World, JobTask, order))

\* A broadcast that waited for pending_lock gets it.
AskLockGranted(t) ==
    /\ Resumed(t, "wait_lock")
    /\ lock_holder = t
    /\ \E order \in Orders : Step(AskLocked(World, t, order))

\* A prompt's send_message returns or raises.
AskPromptSent(t) ==
    /\ Resumed(t, "prompt_send")
    /\ \E ok \in BOOLEAN : Step(AskSent(World, t, ok))

\* A text message is dispatched to handle_text.
HandleTextCalled(t) ==
    /\ Called(t)
    /\ \/ Step(HandleText(World, t, NoUser, <<>>))
       \/ \E user \in Users, text \in Texts : Step(HandleText(World, t, user, text))

\* handle_text gets pending_lock for its read of the flag.
HandleTextReadGranted(t) ==
    /\ Resumed(t, "wait_read")
    /\ lock_holder = t
    /\ Step(HandleTextRead(World, t))

\* handle_text gets pending_lock for its pop of the flag.
HandleTextPopGranted(t) ==
    /\ Resumed(t, "wait_pop")
    /\ lock_holder = t
    /\ Step(HandleTextPop(World, t))

HandleTextHintReplied(t) ==
    /\ task[t].pc \in {"hint_reply", "format_reply", "range_reply"}
    /\ \E ok \in BOOLEAN : Step(HandleTextReplied(World, t, ok))

HandleTextGeneratingReplied(t) ==
    /\ Resumed(t, "generating_reply")
    /\ \E ok \in BOOLEAN, seed \in Seeds : Step(HandleTextGenerated(World, t, ok, seed))

HandleTextResultReplied(t) ==
    /\ Resumed(t, "result_reply")
    /\ \E ok \in BOOLEAN : Step(HandleTextResult(World, t, ok))

HandleTextApologyReplied(t) ==
    /\ Resumed(t, "apology_reply")
    /\ \E ok \in BOOLEAN : Step(HandleTextApology(World, t, ok))

HandlerStep(t) ==
    \/ StartCommandCalled(t)
    \/ StartCommandReplied(t)
    \/ TriggerNowCalled(t)
    \/ HandleTextCalled(t)
    \/ HandleTextReadGranted(t)
    \/ HandleTextPopGranted(t)
    \/ HandleTextHintReplied(t)
    \/ HandleTextGeneratingReplied(t)
    \/ HandleTextResultReplied(t)
    \/ HandleTextApologyReplied(t)

Next ==
    \/ \E t \in Handlers : HandlerStep(t)
    \/ \E t \in Tasks : AskLockGranted(t)
    \/ \E t \in Tasks : AskPromptSent(t)
    \/ JobFired

Spec == Init /\ [][Next]_vars

(* ------------------------ overlapping updates -------------------------- *)

\* The same handlers and job, with one more update handled at a time than Spec
\* allows, so that two handler calls overlap even for NumHandlers = 1.
OverlapNext ==
    \/ \E t \in Overlapping : HandlerStep(t)
    \/ \E t \in Tasks : AskLockGranted(t)
    \/ \E t \in Tasks : AskPromptSent(t)
    \/ JobFired

SpecOverlap == Init /\ [][OverlapNext]_vars

(* ------------------------ one call at a time -------------------------- *)

\* Two copies of the program start from the same registry and pending map, with
\* no task running and the lock free.  Copy a handles one update from caller
\* (/start, /trigger_now or a text) and nothing else; in copy b the job fires
\* once and nothing else (TLC runs copy a first).  A prompt to a user of fails raises, in both copies;
\* every other prompt returns.  A reply returns or raises.
IsoTask == CHOOSE t \in Handlers : \A h \in Handlers : t <= h

IsoWorld(known, pend) ==
    [known_users |-> known, pending_users |-> [u \in pend |-> TRUE],
     lock_holder |-> NoTask, lock_waiters |-> << >>,
     task |-> [t \in Tasks |-> IdleTask]]

IsoInit ==
    /\ known_users = {}
    /\ pending_users = << >>
    /\ lock_holder = NoTask
    /\ lock_waiters = << >>
    /\ task = [t \in Tasks |-> IdleTask]
    /\ \E known \in SUBSET Users, caller \in Callers, fails \in SUBSET Users :
         \E pend \in SUBSET known :
            iso = [on |-> TRUE, a |-> IsoWorld(known, pend), b |-> IsoWorld(known, pend),
                   known0 |-> known, pending0 |-> [u \in pend |-> TRUE],
                   caller |-> caller, fails |-> fails]

IsoStep(a, b) ==
    /\ iso' = [iso EXCEPT !.a = a, !.b = b]
    /\ UNCHANGED <<known_users, pending_users, lock_holder, lock_waiters, task>>

IsoCalled == iso.a.task[IsoTask].pc = "idle"

IsoResumed(pc) == iso.a.task[IsoTask].pc = pc

IsoSendOk(w, t) == w.task[t].snapshot[w.task[t].i] \notin iso.fails

IsoStartCommand ==
    /\ IsoCalled
    /\ IsoStep(StartCommand(iso.a, IsoTask, iso.caller), iso.b)

IsoStartReplied ==
    /\ IsoResumed("welcome_reply")
    /\ \E ok \in BOOLEAN : IsoStep(StartReplied(iso.a, IsoTask, ok), iso.b)

IsoTriggerNow ==
    /\ IsoCalled
    /\ \E order \in Orders :
          IsoStep(TriggerNowCommand(iso.a, IsoTask, iso.caller, order), iso.b)

IsoTriggerSent ==
    /\ IsoResumed("prompt_send")
    /\ IsoStep(AskSent(iso.a, IsoTask, IsoSendOk(iso.a, IsoTask)), iso.b)

IsoHandleText ==
    /\ IsoCalled
    /\ \E text \in IsoTexts : IsoStep(HandleText(iso.a, IsoTask, iso.caller, text), iso.b)

IsoHandleTextReplied ==
    /\ iso.a.task[IsoTask].pc \in {"hint_reply", "format_reply", "range_reply"}
    /\ \E ok \in BOOLEAN : IsoStep(HandleTextReplied(iso.a, IsoTask, ok), iso.b)

IsoHandleTextGenerated ==
    /\ IsoResumed("generating_reply")
    /\ \E ok \in BOOLEAN, seed \in Seeds :
          IsoStep(HandleTextGenerated(iso.a, IsoTask, ok, seed), iso.b)

IsoHandleTextResult ==
    /\ IsoResumed("result_reply")
    /\ \E ok \in BOOLEAN : IsoStep(HandleTextResult(iso.a, IsoTask, ok), iso.b)

IsoHandleTextApology ==
    /\ IsoResumed("apology_reply")
    /\ \E ok \in BOOLEAN : IsoStep(HandleTextApology(iso.a, IsoTask, ok), iso.b)

IsoJobFired ==
    /\ Finished(iso.a, IsoTask)
    /\ iso.b.task[JobTask].pc = "idle"
    /\ \E order \in Orders : IsoStep(iso.a, RepeatedAskJob(iso.b, JobTask, order))

IsoJobSent ==
    /\ iso.b.task[JobTask].pc = "prompt_send"
    /\ IsoStep(iso.a, AskSent(iso.b, JobTask, IsoSendOk(iso.b, JobTask)))

IsoNext ==
    \/ IsoStartCommand
    \/ IsoStartReplied
    \/ IsoTriggerNow
    \/ IsoTriggerSent
    \/ IsoHandleText
    \/ IsoHandleTextReplied
    \/ IsoHandleTextGenerated
    \/ IsoHandleTextResult
    \/ IsoHandleTextApology
    \/ IsoJobFired
    \/ IsoJobSent

SpecIsolated == IsoInit /\ [][IsoNext]_vars

(* ------------------- a trigger and a firing that overlap ---------------- *)

\* Copy a handles /trigger_now from caller and runs the job, the second of the
\* two called while the first is inside its send loop; copy b, which TLC runs
\* after copy a, handles the same /trigger_now and nothing else.  Prompts to the
\* users of fails raise, in both copies.
TwoCalled(t) ==
    /\ iso.a.task[t].pc = "idle"
    /\ \A o \in {IsoTask, JobTask} \ {t} : iso.a.task[o].pc \in {"idle", "prompt_send"}

TwoTriggerNow ==
    /\ TwoCalled(IsoTask)
    /\ \E order \in Orders :
          IsoStep(TriggerNowCommand(iso.a, IsoTask, iso.caller, order), iso.b)

TwoJobFired ==
    /\ TwoCalled(JobTask)
    /\ \E order \in Orders : IsoStep(RepeatedAskJob(iso.a, JobTask, order), iso.b)

TwoLockGranted(t) ==
    /\ iso.a.task[t].pc = "wait_lock"
    /\ iso.a.lock_holder = t
    /\ \E order \in Orders : IsoStep(AskLocked(iso.a, t, order), iso.b)

TwoPromptSent(t) ==
    /\ iso.a.task[t].pc = "prompt_send"
    /\ IsoStep(AskSent(iso.a, t, IsoSendOk(iso.a, t)), iso.b)

TwoFinished == Finished(iso.a, IsoTask) /\ Finished(iso.a, JobTask)

OneTriggerNow ==
    /\ TwoFinished
    /\ iso.b.task[IsoTask].pc = "idle"
    /\ \E order \in Orders :
          IsoStep(iso.a, TriggerNowCommand(iso.b, IsoTask, iso.caller, order))

OnePromptSent ==
    /\ iso.b.task[IsoTask].pc = "prompt_send"
    /\ IsoStep(iso.a, AskSent(iso.b, IsoTask, IsoSendOk(iso.b, IsoTask)))

TwoNext ==
    \/ TwoTriggerNow
    \/ TwoJobFired
    \/ \E t \in {IsoTask, JobTask} : TwoLockGranted(t)
    \/ \E t \in {IsoTask, JobTask} : TwoPromptSent(t)
    \/ OneTriggerNow
    \/ OnePromptSent

SpecTwoBroadcasts == IsoInit /\ [][TwoNext]_vars

(* ------------------------------ fairness -------------------------------- *)

\* A suspended coroutine goes on: the send it awaits returns or raises, or it is
\* given the lock it waits for.
Resume(t) ==
    \/ StartCommandReplied(t)
    \/ AskLockGranted(t)
    \/ AskPromptSent(t)
    \/ HandleTextReadGranted(t)
    \/ HandleTextPopGranted(t)
    \/ HandleTextHintReplied(t)
    \/ HandleTextGeneratingReplied(t)
    \/ HandleTextResultReplied(t)
    \/ HandleTextApologyReplied(t)

\* Resume(t) is enabled: t is suspended in a send, or in pending_lock.acquire()
\* with the lock passed to it.
CanResume(t) ==
    \/ task[t].pc \in {"welcome_reply", "prompt_send", "hint_reply", "format_reply",
                       "range_reply", "generating_reply", "result_reply", "apology_reply"}
    \/ task[t].pc \in {"wait_lock", "wait_read", "wait_pop"} /\ lock_holder = t

\* WF_vars(Resume(t)), with ENABLED <<Resume(t)>>_vars written out as CanResume(t).
ResumeFair(t) == []<>(~CanResume(t)) \/ []<><<Resume(t)>>_vars

\* The Application as main() builds it takes the next update when the handler of
\* the one before has returned: one handler call at a time, and the job.
Sequential == {JobTask, IsoTask}

SequentialNext ==
    \/ HandlerStep(IsoTask)
    \/ \E t \in Sequential : AskLockGranted(t)
    \/ \E t \in Sequential : AskPromptSent(t)
    \/ JobFired

\* The event loop runs every coroutine that can go on; updates and firings of
\* the job may or may not come.
SpecFair == Init /\ [][SequentialNext]_vars /\ \A t \in Sequential : ResumeFair(t)

(* ------------------- the matrix function on its own -------------------- *)

\* generate_matrix_and_row_averages is called once, with any n that handle_text
\* lets through and random's generator in any of the states Seeds.
MatrixInit ==
    /\ known_users = {}
    /\ pending_users = << >>
    /\ lock_holder = NoTask
    /\ lock_waiters = << >>
    /\ task = [t \in Tasks |-> IdleTask]
    /\ \E n \in MinN..MaxN, seed \in Seeds :
          iso = [on |-> TRUE, pc |-> "called", n |-> n, seed |-> seed,
                 matrix |-> << >>, averages |-> << >>]

MatrixReturned ==
    /\ iso.pc = "called"
    /\ LET r == GenerateMatrixAndRowAverages(iso.n, iso.seed)
       IN  iso' = [iso EXCEPT !.pc = "returned", !.matrix = r.matrix,
                              !.averages = r.averages]
    /\ UNCHANGED <<known_users, pending_users, lock_holder, lock_waiters, task>>

MatrixNext == MatrixReturned

SpecMatrix == MatrixInit /\ [][MatrixNext]_vars

(* ------------------------------- claims -------------------------------- *)

\* The one call of copy a, and what came in with it.
IsoA == iso.a.task[IsoTask]

IsoParsed == ParseInt(IsoA.text)

\* Copy a is handling a text from a user whose pending flag was set.
IsoTextWhilePending ==
    /\ IsoA.handler = "handle_text"
    /\ iso.caller \in DOMAIN iso.pending0

Kinds(out) == [k \in 1..Len(out) |-> out[k].kind]

IsoFinished == Finished(iso.a, IsoTask)

\* C1: in every reachable state, whatever the interleaving of the handlers and
\* the broadcasts and however the sends end, every key of pending_users is in
\* known_users.
C1_PendingWithinKnown == DOMAIN pending_users \subseteq known_users

\* A broadcast has dropped the user it could not reach and goes on, while a
\* handler waits for the lock and another user is pending.
C1_Witness ==
    /\ DOMAIN pending_users # {}
    /\ \E t \in Tasks :
          /\ task[t].pc = "prompt_send"
          /\ task[t].i > 1
          /\ task[t].snapshot[1] \notin known_users
    /\ lock_waiters # << >>

\* C2: a text that parses as an integer N with 10 <= N <= 100, from a user whose
\* pending flag is set, makes handle_text clear that flag, and the result reply
\* that follows the "Generating" reply has exactly N lines, each a formatted
\* average "[ ddd.dd ]".
C2_ValidReplyClearsAndAnswers ==
    (/\ IsoTextWhilePending
     /\ IsoParsed.ok
     /\ MinN <= IsoParsed.val
     /\ IsoParsed.val <= MaxN)
    =>
    /\ IsoA.is_pending
    /\ IsoA.n = IsoParsed.val
    /\ iso.caller \notin DOMAIN iso.a.pending_users
    /\ \/ Kinds(IsoA.out) = <<"generating">> /\ IsoA.pc \in {"generating_reply", "raised"}
       \/ /\ Len(IsoA.out) >= 2
          /\ Kinds(SubSeq(IsoA.out, 1, 2)) = <<"generating", "result">>
          /\ IsoA.pc \in {"result_reply", "apology_reply", "done", "raised"}
    /\ \A k \in 1..Len(IsoA.out) :
          /\ IsoA.out[k].to = iso.caller
          /\ IF IsoA.out[k].kind = "result"
             THEN /\ Len(IsoA.out[k].lines) = IsoParsed.val
                  /\ \A l \in 1..Len(IsoA.out[k].lines) :
                        Len(IsoA.out[k].lines[l]) = FieldWidth + 4
             ELSE IsoA.out[k].lines = << >>

\* The user was pending, sent " 100\n" and has the 100 lines.
C2_Witness ==
    /\ IsoTextWhilePending
    /\ IsoA.pc = "done"
    /\ IsoA.n = MaxN
    /\ Len(IsoA.out) = 2
    /\ Len(IsoA.out[2].lines) = MaxN

\* C3: a text that does not parse as an integer, from a user whose pending flag
\* is set, gets the format-error reply and nothing else (no matrix result), and
\* the flag is still set afterwards.
C3_NonIntegerKeepsPending ==
    (IsoTextWhilePending /\ ~IsoParsed.ok)
    =>
    /\ IsoA.is_pending
    /\ IsoA.out = <<Message("format_error", iso.caller, << >>)>>
    /\ IsoA.pc \in {"format_reply", "done", "raised"}
    /\ iso.a.pending_users = iso.pending0
    /\ iso.a.pending_users[iso.caller]

\* The user was pending, sent "abc", and handle_text has returned.
C3_Witness ==
    /\ IsoTextWhilePending
    /\ IsoA.text = <<"a", "b", "c">>
    /\ IsoA.pc = "done"
    /\ iso.caller \in DOMAIN iso.a.pending_users

\* C4: an integer outside [10, 100] (9, 101, 0, a negative one), from a user whose
\* pending flag is set, gets the range-error reply and nothing else (no matrix
\* result), and the flag is still set afterwards.
C4_OutOfRangeKeepsPending ==
    (/\ IsoTextWhilePending
     /\ IsoParsed.ok
     /\ (IsoParsed.val < MinN \/ IsoParsed.val > MaxN))
    =>
    /\ IsoA.is_pending
    /\ IsoA.n = IsoParsed.val
    /\ IsoA.out = <<Message("range_error", iso.caller, << >>)>>
    /\ IsoA.pc \in {"range_reply", "done", "raised"}
    /\ iso.a.pending_users = iso.pending0
    /\ iso.a.pending_users[iso.caller]

\* The user was pending, sent "101", and handle_text has returned.
C4_Witness ==
    /\ IsoTextWhilePending
    /\ IsoA.n = MaxN + 1
    /\ IsoA.pc = "done"
    /\ iso.caller \in DOMAIN iso.a.pending_users

\* C5, as claimed: once handle_text has dealt with a reply from a user whose
\* pending flag was set, valid or not, the flag is cleared.
C5_AnyReplyClears ==
    (IsoTextWhilePending /\ IsoFinished) => iso.caller \notin DOMAIN iso.a.pending_users

\* C5, amended: once handle_text has dealt with a reply from a user whose pending
\* flag was set, the flag is cleared if the reply is an integer in [10, 100], and
\* still set if it is not.
C5_OnlyValidReplyClears ==
    (IsoTextWhilePending /\ IsoFinished)
    =>
    (iso.caller \in DOMAIN iso.a.pending_users
        <=> ~(IsoParsed.ok /\ MinN <= IsoParsed.val /\ IsoParsed.val <= MaxN))

\* The user was pending and sent "-5"; handle_text is over and the flag is set.
C5_Witness ==
    /\ IsoTextWhilePending
    /\ IsoFinished
    /\ IsoA.n < 0
    /\ iso.caller \in DOMAIN iso.a.pending_users

\* The step is a prompt to u raising, or returning, in some broadcast.
PromptFailed(u) ==
    \E b \in Tasks :
       /\ task[b].pc = "prompt_send"
       /\ task[b].snapshot[task[b].i] = u
       /\ Step(AskSent(World, b, FALSE))

PromptReturned(u) ==
    \E b \in Tasks :
       /\ task[b].pc = "prompt_send"
       /\ task[b].snapshot[task[b].i] = u
       /\ Step(AskSent(World, b, TRUE))

\* Task t makes a step.
Moves(t) == task'[t] # task[t]

IsoRan(w, t) == w.task[t].pc = "done" /\ w.task[t].snapshot # << >>

IsoSnapshotUsers(w, t) == {w.task[t].snapshot[k] : k \in 1..Len(w.task[t].snapshot)}

\* C7: after one run of ask_all_users in which the send fails for exactly one user
\* u of the snapshot, u is in neither known_users nor pending_users, every other
\* user of the snapshot is in known_users with pending flag True, and every user
\* of the snapshot has been sent the prompt (the failure did not end the loop).
IsoOneFailure(w, t) ==
    (IsoRan(w, t) /\ Cardinality(IsoSnapshotUsers(w, t) \cap iso.fails) = 1)
    =>
    /\ \A u \in IsoSnapshotUsers(w, t) :
          IF u \in iso.fails
          THEN u \notin w.known_users /\ u \notin DOMAIN w.pending_users
          ELSE u \in w.known_users /\ u \in DOMAIN w.pending_users /\ w.pending_users[u]
    /\ w.task[t].out =
          [k \in 1..Len(w.task[t].snapshot) |-> Message("prompt", w.task[t].snapshot[k], << >>)]

C7_OneFailureRemovesOnlyThatUser ==
    /\ IsoOneFailure(iso.a, IsoTask)
    /\ IsoOneFailure(iso.b, JobTask)

\* The job's broadcast could not reach the first user of its snapshot, went on,
\* and has marked the second.
C7_Witness ==
    /\ IsoRan(iso.b, JobTask)
    /\ Len(iso.b.task[JobTask].snapshot) >= 2
    /\ IsoSnapshotUsers(iso.b, JobTask) \cap iso.fails = {iso.b.task[JobTask].snapshot[1]}
    /\ iso.b.task[JobTask].snapshot[2] \in DOMAIN iso.b.pending_users
    /\ iso.b.task[JobTask].snapshot[2] \notin DOMAIN iso.pending0

\* C8: a user leaves known_users only in the step in which a prompt to that user,
\* sent by ask_all_users, raises: no handler, no send that returns and no reply of
\* handle_text that raises removes a user.
C8_RemovedOnlyByFailedPrompt ==
    [][\A u \in Users :
          (u \in known_users /\ u \notin known_users') => PromptFailed(u)]_vars

\* A broadcast has dropped the first user of its snapshot and goes on, while
\* handle_text for that user is about to learn that its result was not sent.
C8_Witness ==
    \E b \in Tasks, t \in Handlers :
       /\ task[b].pc = "prompt_send"
       /\ task[b].i = 2
       /\ task[b].snapshot[1] \notin known_users
       /\ task[t].pc = "result_reply"
       /\ task[t].user_id = task[b].snapshot[2]

IsoJob == iso.b.task[JobTask]

IsoBothRan ==
    /\ IsoA.handler = "trigger_now_command"
    /\ IsoFinished
    /\ IsoJob.handler = "repeated_ask_job"
    /\ Finished(iso.b, JobTask)

IsoPrompted(out) == {out[k].to : k \in 1..Len(out)}

IsoSameEffect ==
    /\ iso.a.known_users = iso.b.known_users
    /\ iso.a.pending_users = iso.b.pending_users
    /\ IsoPrompted(IsoA.out) = IsoPrompted(IsoJob.out)
    /\ Len(IsoA.out) = Len(IsoJob.out)

\* C9, as claimed: from the same registry, pending map and send outcomes, a
\* broadcast started by /trigger_now and one started by the job prompt the same
\* users and leave known_users and pending_users the same.
C9_TriggerSameAsJob == IsoBothRan => IsoSameEffect

\* C9, amended: they do when the user who sent /trigger_now was in known_users
\* already (or the update has no user); trigger_now_command first adds its caller.
C9_TriggerSameAsJobForKnownCaller ==
    (IsoBothRan /\ (iso.caller = NoUser \/ iso.caller \in iso.known0)) => IsoSameEffect

\* Both have run over two known users, one of them pending before, one of them
\* out of reach, on the trigger of a known user.
C9_Witness ==
    /\ IsoBothRan
    /\ iso.caller \in iso.known0
    /\ Cardinality(iso.known0) >= 2
    /\ iso.fails \cap iso.known0 # {}
    /\ iso.known0 \ iso.fails # {}
    /\ DOMAIN iso.pending0 # {}

\* C10: when the send of the result raises, handle_text sends one apology to the
\* same user and then ends: the result is not sent again, the user stays in
\* known_users and the pending flag stays cleared.
C10_FailedResultGetsOneApology ==
    [][/\ (IsoA.pc = "result_reply" /\ iso'.a = HandleTextResult(iso.a, IsoTask, FALSE))
          =>
          /\ iso'.a.task[IsoTask].pc = "apology_reply"
          /\ iso'.a.task[IsoTask].out = Append(IsoA.out, Message("apology", iso.caller, << >>))
          /\ Kinds(iso'.a.task[IsoTask].out) = <<"generating", "result", "apology">>
          /\ iso'.a.known_users = iso.a.known_users
          /\ iso'.a.pending_users = iso.a.pending_users
          /\ iso.caller \in iso'.a.known_users
          /\ iso.caller \notin DOMAIN iso'.a.pending_users
       /\ (IsoA.pc = "apology_reply" /\ iso'.a # iso.a)
          =>
          /\ iso'.a.task[IsoTask].pc \in {"done", "raised"}
          /\ iso'.a.task[IsoTask].out = IsoA.out
          /\ iso'.a.known_users = iso.a.known_users
          /\ iso'.a.pending_users = iso.a.pending_users]_vars

\* The result was not sent, the apology was, and handle_text has returned.
C10_Witness ==
    /\ IsoA.pc = "done"
    /\ Kinds(IsoA.out) = <<"generating", "result", "apology">>
    /\ iso.caller \in iso.a.known_users
    /\ iso.caller \notin DOMAIN iso.a.pending_users

\* row[1] + ... + row[Len(row)], added up ten at a time from the left.
RECURSIVE RowTotalFrom(_, _)
RowTotalFrom(row, k) ==
    IF k > Len(row) THEN 0
    ELSE LET Entry(j) == IF j <= Len(row) THEN row[j] ELSE 0
         IN  Entry(k) + Entry(k + 1) + Entry(k + 2) + Entry(k + 3) + Entry(k + 4)
             + Entry(k + 5) + Entry(k + 6) + Entry(k + 7) + Entry(k + 8) + Entry(k + 9)
             + RowTotalFrom(row, k + 10)

\* C11: for every N in [10,100], generate_matrix_and_row_averages(N) returns a
\* matrix of exactly N rows of exactly N integers, each in [0,100], and N
\* averages, the i-th being the sum of row i divided by N.
C11_MatrixShapeAndRowMeans ==
    (iso.pc = "returned")
    =>
    /\ DOMAIN iso.matrix = 1..iso.n
    /\ \A i \in 1..iso.n :
          /\ DOMAIN iso.matrix[i] = 1..iso.n
          /\ \A j \in 1..iso.n :
                iso.matrix[i][j] \in Int /\ 0 <= iso.matrix[i][j] /\ iso.matrix[i][j] <= 100
    /\ DOMAIN iso.averages = 1..iso.n
    /\ \A i \in 1..iso.n :
          /\ iso.averages[i].den = iso.n
          /\ iso.averages[i].num = RowTotalFrom(iso.matrix[i], 1)

\* The largest matrix, with both ends of the range in it and rows of different
\* sums.
C11_Witness ==
    /\ iso.pc = "returned"
    /\ iso.n = MaxN
    /\ \E i, j \in 1..iso.n : iso.matrix[i][j] = 0
    /\ \E i, j \in 1..iso.n : iso.matrix[i][j] = 100
    /\ iso.averages[1].num # iso.averages[2].num
    /\ iso.averages[1].num # RowTotalFrom([i \in 1..iso.n |-> iso.matrix[i][1]], 1)

\* Call t of handle_text has read its user's flag as set and waits for the lock
\* to clear it: the only place where it suspends between the two, and from there
\* it clears the flag whatever has happened to it since.
ReadNotYetCleared(t, u) ==
    /\ task[t].handler = "handle_text"
    /\ task[t].user_id = u
    /\ task[t].pc = "wait_pop"

\* C12: once a broadcast has prompted user u and set u's flag, the flag is cleared
\* only by a handle_text call that read it after that set: no prompt to u returns,
\* and sets the flag, while a call that has already read the flag is still to
\* clear it.
C12_PromptNotLostToEarlierReader ==
    [][\A u \in Users :
          PromptReturned(u) => ~(\E t \in Overlapping : ReadNotYetCleared(t, u))]_vars

\* C13: the read and the clear of the flag are one atomic step under the lock: of
\* the handle_text calls for one user that overlap, at most one has observed the
\* flag as set and is still to clear it, so one prompt yields at most one result.
C13_AtMostOneObservesFlag ==
    \A u \in Users : \A t1, t2 \in Overlapping :
       (ReadNotYetCleared(t1, u) /\ ReadNotYetCleared(t2, u)) => t1 = t2

\* The prompts to the first i users of a snapshot, one each, in its order.
PromptsTo(snapshot, i) == [k \in 1..i |-> Message("prompt", snapshot[k], << >>)]

\* C14: a run of ask_all_users takes its snapshot when it enters the lock, and the
\* snapshot is known_users as it is then; the run sends one prompt to each user of
\* the snapshot, in turn, whether the send before returned or raised, and returns
\* after the last; it marks no user pending but the one just prompted.  So a user
\* registered after the snapshot is neither prompted nor marked by the run.
C14_OnePromptPerSnapshotUser ==
    [][\A b \in Tasks :
          /\ (task[b].pc \in {"idle", "wait_lock"} /\ task'[b].pc = "prompt_send")
             =>
             /\ {task'[b].snapshot[k] : k \in DOMAIN task'[b].snapshot} = known_users'
             /\ Len(task'[b].snapshot) = Cardinality(known_users')
             /\ task'[b].i = 1
             /\ task'[b].out = PromptsTo(task'[b].snapshot, 1)
          /\ (task[b].pc = "prompt_send" /\ Moves(b))
             =>
             /\ \A u \in Users \ {task[b].snapshot[task[b].i]} :
                   PendingGet(pending_users', u) = PendingGet(pending_users, u)
             /\ IF task[b].i = Len(task[b].snapshot)
                THEN task'[b] = IdleTask
                ELSE /\ task'[b].pc = "prompt_send"
                     /\ task'[b].snapshot = task[b].snapshot
                     /\ task'[b].i = task[b].i + 1
                     /\ task'[b].out = PromptsTo(task[b].snapshot, task[b].i + 1)]_vars

\* A broadcast is at the last user of its snapshot, and a user who registered
\* after the snapshot was taken is known and not pending.
C14_Witness ==
    \E b \in Tasks, u \in Users :
       /\ task[b].pc = "prompt_send"
       /\ task[b].i = Len(task[b].snapshot)
       /\ u \in known_users
       /\ \A k \in DOMAIN task[b].snapshot : task[b].snapshot[k] # u
       /\ u \notin DOMAIN pending_users

\* The overlapping trigger and firing of copy a, and the single trigger of copy b.
TwoTrigger == iso.a.task[IsoTask]

TwoJob == iso.a.task[JobTask]

OneTrigger == iso.b.task[IsoTask]

\* C15: when /trigger_now and a firing of the job overlap, both broadcasts return
\* and each has sent a prompt to every user it can reach (the job's to those known
\* before the trigger), users pending before included; every known user's flag is
\* True, and known_users and pending_users end as the one broadcast of the
\* trigger alone leaves them.
C15_OverlapAsOneBroadcast ==
    (TwoFinished /\ Finished(iso.b, IsoTask))
    =>
    /\ TwoTrigger.pc = "done"
    /\ TwoJob.pc = "done"
    /\ \A u \in iso.a.known_users :
          /\ u \in IsoPrompted(TwoTrigger.out)
          /\ u \in iso.known0 => u \in IsoPrompted(TwoJob.out)
          /\ PendingGet(iso.a.pending_users, u)
    /\ iso.a.pending_users = iso.b.pending_users
    /\ iso.a.known_users = iso.b.known_users

\* Both have run over two known users, one of them pending before; every send
\* returned.
C15_Witness ==
    /\ TwoFinished
    /\ OneTrigger.pc = "done"
    /\ iso.fails = {}
    /\ iso.caller \in Users
    /\ DOMAIN iso.pending0 # {}
    /\ DOMAIN iso.pending0 # iso.known0
    /\ Len(TwoTrigger.out) >= 2
    /\ Len(TwoJob.out) >= 2

\* A run of ask_all_users is inside its send loop.
InSendLoop(b) == task[b].pc = "prompt_send"

\* The places where handle_text has yet to read the flag, or to clear it.
BeforeLockedSection == {"idle", "wait_read", "wait_pop"}

\* C16: broadcasts are serialized by pending_lock.  The run inside its send loop
\* holds the lock and is the only one; a run that waits for the lock has taken no
\* snapshot, and the users a run has yet to prompt are all in known_users; and in
\* a step taken while a run is inside its send loop no handle_text call reads a
\* pending flag or clears one.
C16_BroadcastsSerialized ==
    [][/\ \A b \in Tasks :
             /\ (task'[b].pc = "prompt_send")
                =>
                /\ lock_holder' = b
                /\ \A c \in Tasks : task'[c].pc = "prompt_send" => c = b
                /\ \A k \in task'[b].i..Len(task'[b].snapshot) :
                      task'[b].snapshot[k] \in known_users'
             /\ (task'[b].pc = "wait_lock")
                =>
                /\ task'[b].snapshot = << >>
                /\ task'[b].out = << >>
                /\ lock_holder' # NoTask
       /\ (\E b \in Tasks : InSendLoop(b))
          =>
          \A t \in Tasks :
             (task'[t].handler = "handle_text" /\ task[t].pc \in BeforeLockedSection)
             => /\ task'[t].pc \in BeforeLockedSection
                /\ task'[t].is_pending = FALSE \/ task'[t].is_pending = task[t].is_pending]_vars

\* One broadcast has dropped a user and is still inside its send loop, and
\* another waits for the lock.
C16_Witness ==
    \E b, c \in Tasks :
       /\ task[b].pc = "prompt_send"
       /\ task[b].i > 1
       /\ task[b].snapshot[1] \notin known_users
       /\ task[c].pc = "wait_lock"
       /\ lock_waiters = <<c>>

\* C17: every send returning or raising in the end and the lock going to its
\* waiters in turn, every call that has started finishes, every task that holds
\* pending_lock gives it up, also after a send in the broadcast loop has raised,
\* and with no call in flight the lock is free and nobody waits for it.
C17_EveryCallFinishes ==
    /\ \A t \in Tasks : (task[t].pc # "idle") ~> (task[t].pc = "idle")
    /\ \A t \in Tasks : (lock_holder = t) ~> (lock_holder # t)
    /\ []((\A t \in Tasks : task[t].pc = "idle")
            => (lock_holder = NoTask /\ lock_waiters = << >>))

\* A broadcast holds the lock after a send that raised, and a handler waits for
\* the lock.
C17_Witness ==
    \E b, t \in Tasks :
       /\ task[b].pc = "prompt_send"
       /\ task[b].i > 1
       /\ task[b].snapshot[1] \notin known_users
       /\ lock_holder = b
       /\ task[t].pc \in {"wait_lock", "wait_read"}
       /\ lock_waiters = <<t>>

\* The step is the call of a handler for an update from user u.
CalledBy(u) ==
    \E t \in Tasks :
       /\ task[t].pc = "idle"
       /\ task'[t].handler \in {"start_command", "trigger_now_command", "handle_text"}
       /\ task'[t].user_id = u

\* C18: a user enters known_users only in the step that calls start_command,
\* trigger_now_command or handle_text for an update from that user, and a user's
\* pending flag becomes True only in the step in which a prompt to that user
\* returns in ask_all_users.  So a broadcast sends a prompt only to a user who is
\* in known_users then: not to one it or an earlier run has dropped, until that
\* user has come back; and a run that takes its snapshot has every user in it who
\* is known then, the ones who came back too.
C18_RegisteredOnlyByOwnUpdate ==
    [][/\ \A u \in Users :
             /\ (u \notin known_users /\ u \in known_users') => CalledBy(u)
             /\ (~PendingGet(pending_users, u) /\ PendingGet(pending_users', u))
                => PromptReturned(u)
       /\ \A b \in Tasks :
             (task'[b].pc = "prompt_send" /\ task'[b] # task[b])
             =>
             /\ task'[b].snapshot[task'[b].i] \in known_users'
             /\ task[b].pc # "prompt_send"
                => \A u \in known_users' :
                      \E k \in DOMAIN task'[b].snapshot : task'[b].snapshot[k] = u]_vars

\* A broadcast has dropped the first user of its snapshot, who has since sent
\* /start and is known again, not pending, while the run goes on.
C18_Witness ==
    \E b, t \in Tasks :
       /\ task[b].pc = "prompt_send"
       /\ task[b].i = 2
       /\ task[t].handler = "start_command"
       /\ task[t].pc = "welcome_reply"
       /\ task[t].user_id = task[b].snapshot[1]
       /\ task[t].user_id \in known_users
       /\ task[t].user_id \notin DOMAIN pending_users

====
